---- MODULE Spec2Model ----
(***************************************************************************)
(* Model of github.com/satorunooshie/e2e (src/e2e.go): the golden-response *)
(* comparison engine RunTest, its response filters ModifyJSON, PrettyJSON  *)
(* and CaptureResponse, and the recursive field rewriter rewriteMap.       *)
(*                                                                         *)
(* Two specifications:                                                     *)
(*   Spec       one test process: RunTest calls, step by step, against a   *)
(*              golden store;                                              *)
(*   SpecRewrite  rewriteMap applied (and applied again) to a target and  *)
(*              an overwrite drawn from bounded sets.                      *)
(***************************************************************************)
EXTENDS Integers, Sequences, FiniteSets, TLC

VARIABLES
    \* ---- the test process (Spec) ----
    dumpRawResponse,  \* flag -dump
    updateGolden,     \* flag -golden
    golden,           \* testdata/<name>.golden : bytes, or NoFile
    pc,               \* position of the running RunTest call
    t,                \* the *testing.T of the running test
    want,             \* RunTest's want, as the test passes it
    filters,          \* RunTest's filters, as the test passes them
    fi,               \* index of the next filter of the range loop
    got,              \* the *http.Response (StatusCode, Content-Type, Body)
    dump,             \* the bytes of httputil.DumpResponse(got, true)
    ptr,              \* destination of CaptureResponse
    hist,             \* history: what each step read and left
    \* ---- rewriteMap alone (SpecRewrite) ----
    base,             \* the target map, mutated in place
    overwrite,        \* the overwrite map
    order,            \* the order in which range visits the keys of a map
    rwpc,             \* "init", "once", "twice"
    rwres             \* what each application returned

vars == <<dumpRawResponse, updateGolden, golden, pc, t, want, filters, fi,
          got, dump, ptr, hist, base, overwrite, order, rwpc, rwres>>

runVars == <<dumpRawResponse, updateGolden, golden, pc, t, want, filters, fi,
             got, dump, ptr, hist>>

rwVars == <<base, overwrite, order, rwpc, rwres>>

(***************************************************************************)
(* JSON values as encoding/json decodes them into `any`:                   *)
(*   nil, float64, string, map[string]any, []any.                          *)
(* An overwrite map additionally holds []map[string]any values ("maps").   *)
(***************************************************************************)
Null == [k |-> "null"]
Num(n) == [k |-> "num", n |-> n]
Str(s) == [k |-> "str", s |-> s]
Obj(m) == [k |-> "obj", m |-> m]
Arr(a) == [k |-> "arr", a |-> a]
Maps(a) == [k |-> "maps", a |-> a]

\* The longest array (and array overwrite) of the bounded value sets.
MaxLen == 2

Keys == {"id", "created_time"}

EmptyMap == <<>>

\* the value of a variable no call is using
NoRun == [b |-> "none"]

\* All maps from a subset of ks to vs.
MapsOver(ks, vs) == UNION {[d -> vs] : d \in SUBSET ks}

\* All sequences over s of length at most n.
SeqsUpTo(s, n) == UNION {[1..l -> s] : l \in 0..n}

(***************************************************************************)
(* rewriteMap (src/e2e.go:150-184).  The target is mutated in place        *)
(* through references to its nested maps, so the model keeps the root      *)
(* value and the path `parents` of the map a call works on; a call         *)
(* returns [ok, val]: ok = FALSE is t.Fatalf (the goroutine exits there),  *)
(* val the root as the call left it.  Go visits the keys of a map in an    *)
(* unspecified order: `ord` is the order used.                             *)
(***************************************************************************)
MapOf(v) == IF v.k = "obj" THEN v.m ELSE EmptyMap

\* v's child under path component c: a key of a map, an index of a slice.
Child(v, c) == IF v.k = "obj" THEN v.m[c] ELSE v.a[c]

RECURSIVE Get(_, _)
Get(v, p) == IF Len(p) = 0 THEN v ELSE Get(Child(v, Head(p)), Tail(p))

RECURSIVE Put(_, _, _)
Put(v, p, x) ==
    IF Len(p) = 0 THEN x
    ELSE IF v.k = "obj"
         THEN Obj([v.m EXCEPT ![Head(p)] = Put(@, Tail(p), x)])
         ELSE Arr([v.a EXCEPT ![Head(p)] = Put(@, Tail(p), x)])

\* (mutant) the overwrite is applied to keys the target lacks too
KeyPresentAlways(b, k) == TRUE

\* old, ok := base[k]
KeyPresent(b, k) == k \in DOMAIN MapOf(b)

Lookup(b, k) == IF k \in DOMAIN MapOf(b) THEN MapOf(b)[k] ELSE Null

\* (mutant) a literal replaces only a value of its own type
SetKeySameType(b, k, v) ==
    IF Lookup(b, k).k = v.k
    THEN Obj([x \in DOMAIN MapOf(b) \cup {k} |-> IF x = k THEN v ELSE MapOf(b)[x]])
    ELSE b

\* base[k] = v
SetKey(b, k, v) ==
    Obj([x \in DOMAIN MapOf(b) \cup {k} |-> IF x = k THEN v ELSE MapOf(b)[x]])

\* sub, ok := old.(map[string]any)
IsMap(old) == old.k = "obj"

\* sub, ok := old.([]any)
IsSlice(old) == old.k = "arr"

\* (mutant) only an overwrite longer than the array is fatal
SameLenAtLeast(sub, v) == Len(sub) >= Len(v)

\* len(sub) != len(v) is fatal
SameLen(sub, v) == Len(sub) = Len(v)

\* (mutant) the recursive call is given base instead of sub
NestedTargetSelf(parents, k) == parents

\* the map the recursive call works on: sub, the map under key k
NestedTarget(parents, k) == Append(parents, k)

\* the element the recursive call of the array branch works on: sub[i]
ElemTarget(parents, k, i) == parents \o <<k, i>>

RwOk(root) == [ok |-> TRUE, val |-> root, msg |-> "", key |-> <<>>]

RwFatal(root, msg, key) == [ok |-> FALSE, val |-> root, msg |-> msg, key |-> key]

RECURSIVE rewriteRange(_, _, _, _, _)

rewriteMap(root, parents, over, ord) == rewriteRange(root, parents, over, ord, ord)

RECURSIVE rewriteElems(_, _, _, _, _, _)
rewriteElems(root, parents, k, v, i, ord) ==
    IF i > Len(v) THEN RwOk(root)
    ELSE LET sub == Get(root, Append(parents, k)).a IN
         IF i > Len(sub)
         THEN RwFatal(root, "index out of range", ElemTarget(parents, k, i))
         ELSE IF ~IsMap(sub[i])
         THEN RwFatal(root, "could not rewrite array map", ElemTarget(parents, k, i))
         ELSE LET r == rewriteMap(root, ElemTarget(parents, k, i), v[i], ord)
              IN  IF r.ok THEN rewriteElems(r.val, parents, k, v, i + 1, ord) ELSE r

\* the body of the range loop for one key k with value v
rewriteKey(root, parents, k, v, ord) ==
    LET b == Get(root, parents)
        old == Lookup(b, k)
    IN  IF ~KeyPresent(b, k) THEN RwOk(root)
        ELSE CASE v.k = "obj" ->
                    IF ~IsMap(old)
                    THEN RwFatal(root, "could not rewrite map", Append(parents, k))
                    ELSE rewriteMap(root, NestedTarget(parents, k), v.m, ord)
               [] v.k = "maps" ->
                    IF ~IsSlice(old)
                    THEN RwFatal(root, "could not rewrite array map", Append(parents, k))
                    ELSE IF ~SameLen(old.a, v.a)
                    THEN RwFatal(root, "could not rewrite array map: len", Append(parents, k))
                    ELSE rewriteElems(root, parents, k, v.a, 1, ord)
               [] OTHER -> RwOk(Put(root, parents, SetKey(b, k, v)))

rewriteRange(root, parents, over, ks, ord) ==
    IF Len(ks) = 0 THEN RwOk(root)
    ELSE IF Head(ks) \notin DOMAIN over
         THEN rewriteRange(root, parents, over, Tail(ks), ord)
         ELSE LET r == rewriteKey(root, parents, Head(ks), over[Head(ks)], ord)
              IN  IF r.ok THEN rewriteRange(r.val, parents, over, Tail(ks), ord) ELSE r

\* The orders in which range may visit the keys ks.
Perms(ks) == {o \in [1..Cardinality(ks) -> ks] : \A i, j \in DOMAIN o : i # j => o[i] # o[j]}

Orders == Perms(Keys)

(***************************************************************************)
(* Bounded sets of targets and overwrites for SpecRewrite.                 *)
(***************************************************************************)
\* what a decoded array holds: objects, and a number (not a map)
RwElems == {Obj([id |-> Num(1)]), Num(1)}

RwArrays == {Arr(a) : a \in SeqsUpTo(RwElems, MaxLen)}

RwObjects == {Obj(EmptyMap), Obj([id |-> Num(1)]), Obj([id |-> Obj([id |-> Num(1)])]),
              Obj([id |-> Arr(<<Obj([id |-> Num(1)])>>)])}

RwFieldValues == {Null, Num(1)} \cup RwObjects \cup RwArrays

\* the decoded bodies: map[string]any
Targets == {Obj(m) : m \in MapsOver(Keys, RwFieldValues)}

OwElems == {EmptyMap, [id |-> Num(2)]}

OwMaps == {Maps(a) : a \in SeqsUpTo(OwElems, MaxLen)}

OwNested == {Obj(EmptyMap), Obj([id |-> Num(2)]), Obj([id |-> Obj([id |-> Num(2)])]),
             Obj([id |-> Maps(<<>>)]), Obj([id |-> Maps(<<[id |-> Num(2)]>>)])}

OwValues == {Num(2)} \cup OwNested \cup OwMaps

\* the overwrite maps: map[string]any
Overwrites == MapsOver(Keys, OwValues)

(***************************************************************************)
(* Bytes.  A body is kept as what its bytes are: nothing, text that is no  *)
(* JSON, or a JSON document of value v in a byte layout f ("raw": as the   *)
(* handler wrote it; "compact": json.Encoder, one line and a newline;      *)
(* "indent": json.MarshalIndent with two spaces), `more` when other data   *)
(* follows the value.  Two bodies are the same bytes iff they are equal.   *)
(***************************************************************************)
EmptyBytes == [b |-> "empty"]

Garbage == [b |-> "text"]

Doc(v, f, more) == [b |-> "json", v |-> v, f |-> f, more |-> more]

Raw(v) == Doc(v, "raw", FALSE)

\* json.Unmarshal(body, &tmp), tmp a map[string]any: an object, or null
\* (tmp stays nil); anything after the value is an error
Unmarshal(bytes) ==
    IF bytes.b = "json" /\ ~bytes.more /\ bytes.v.k \in {"obj", "null"}
    THEN [ok |-> TRUE, val |-> bytes.v]
    ELSE [ok |-> FALSE, val |-> Null]

\* json.NewDecoder(r.Body).Decode(&tmp): the first value of the stream
Decode(bytes) ==
    IF bytes.b = "json" /\ bytes.v.k \in {"obj", "null"}
    THEN [ok |-> TRUE, val |-> bytes.v]
    ELSE [ok |-> FALSE, val |-> Null]

\* json.NewEncoder(body).Encode(&tmp)
Encode(v) == Doc(v, "compact", FALSE)

\* json.MarshalIndent(&tmp, "", "  ")
MarshalIndent(v) == Doc(v, "indent", FALSE)

\* indentJSON: [ok, bytes]; ok = FALSE is t.Fatal
indentJSON(body) ==
    LET tmp == Unmarshal(body)
    IN  IF ~tmp.ok THEN [ok |-> FALSE, bytes |-> body]
        ELSE [ok |-> TRUE, bytes |-> MarshalIndent(tmp.val)]

\* json.Unmarshal(body, &ptr) for the destination of the example scenario,
\* struct{ ID int }: an object whose "id", if any, is a number or null
UnmarshalPtr(bytes) ==
    IF bytes.b = "json" /\ ~bytes.more /\ bytes.v.k \in {"obj", "null"}
       /\ (KeyPresent(bytes.v, "id") => bytes.v.m["id"].k \in {"num", "null"})
    THEN [ok |-> TRUE,
          val |-> IF KeyPresent(bytes.v, "id") /\ bytes.v.m["id"].k = "num"
                  THEN [ID |-> bytes.v.m["id"].n] ELSE [ID |-> 0]]
    ELSE [ok |-> FALSE, val |-> [ID |-> 0]]

(***************************************************************************)
(* A response body is a stream: its bytes, and whether they were read.     *)
(***************************************************************************)
\* io.NopCloser(bytes.NewReader(b))
NewReader(b) == [bytes |-> b, eof |-> FALSE]

\* io.ReadAll(body): what is left of the stream
ReadAll(body) == IF body.eof THEN EmptyBytes ELSE body.bytes

Drained(body) == [bytes |-> body.bytes, eof |-> TRUE]

\* strings.HasPrefix on a header value kept as its tokens
HasPrefix(s, p) == Len(p) <= Len(s) /\ SubSeq(s, 1, Len(p)) = p

IsJSON(header) == HasPrefix(header, <<"application/json">>)

StatusOK == 200
StatusCreated == 201
StatusNoContent == 204
StatusInternalServerError == 500

(***************************************************************************)
(* RunTest (src/e2e.go:37-92) as steps on the record s of the run.         *)
(***************************************************************************)
Cur == [dumpRaw |-> dumpRawResponse, update |-> updateGolden, golden |-> golden,
        pc |-> pc, t |-> t, want |-> want, filters |-> filters, fi |-> fi,
        got |-> got, dump |-> dump, ptr |-> ptr, hist |-> hist]

Become(s) ==
    /\ dumpRawResponse' = s.dumpRaw
    /\ updateGolden' = s.update
    /\ golden' = s.golden
    /\ pc' = s.pc
    /\ t' = s.t
    /\ want' = s.want
    /\ filters' = s.filters
    /\ fi' = s.fi
    /\ got' = s.got
    /\ dump' = s.dump
    /\ ptr' = s.ptr
    /\ hist' = s.hist

NoFile == [b |-> "nofile"]

\* t.Errorf: the test is marked failed and goes on
Errorf(s, msg) == [s EXCEPT !.t.errors = @ \cup {msg}]

\* (mutant) with -golden, the file is still written when the test exits
FatalThenWrite(s, msg) ==
    [s EXCEPT !.t.fatal = msg, !.pc = IF s.update THEN "golden" ELSE "fatal"]

\* t.Fatal: the test is marked failed and its goroutine exits
Fatal(s, msg) == [s EXCEPT !.t.fatal = msg, !.pc = "fatal"]

\* what a step read of the body, the body it left, and the golden store then
Note(s, step, read) ==
    [s EXCEPT !.hist = Append(@, [step |-> step, read |-> read, left |-> s.got.Body,
                                  golden |-> s.golden])]

NotRead == [b |-> "notread"]

\* where the range loop over filters stands with i filters done
LoopPc(s, i) == IF i < Len(s.filters) THEN "filter" ELSE "golden"

\* w := httptest.NewRecorder(); router.ServeHTTP(w, r); got := w.Result()
Dispatch(s, name, resp) ==
    Note([s EXCEPT !.pc = "assert",
                   !.t = [name |-> name, errors |-> {}, fatal |-> "", raw |-> NotRead],
                   !.fi = 0,
                   !.got = [StatusCode |-> resp.status, ContentType |-> resp.ctype,
                            Body |-> NewReader(resp.body)],
                   !.dump = NoFile, !.ptr = [ID |-> 0], !.hist = <<>>],
         "ServeHTTP", NotRead)

\* (mutant) t.Fatalf in place of t.Errorf
AssertStatusFatal(s) ==
    IF s.got.StatusCode # s.want
    THEN [s EXCEPT !.t.fatal = "HTTP StatusCode", !.pc = "fatal"]
    ELSE [s EXCEPT !.pc = IF s.dumpRaw THEN "dump" ELSE LoopPc(s, 0)]

\* if got.StatusCode != want { t.Errorf(...) }
AssertStatus(s) ==
    LET s1 == IF s.got.StatusCode # s.want THEN Errorf(s, "HTTP StatusCode") ELSE s
    IN  [s1 EXCEPT !.pc = IF s.dumpRaw THEN "dump" ELSE LoopPc(s, 0)]

\* the body of `if *dumpRawResponse`
DumpRaw(s) ==
    LET read == ReadAll(s.got.Body)              \* drainBody, then io.ReadAll(rc)
        s1   == [s EXCEPT !.got.Body = NewReader(read)]
        ind  == IF IsJSON(s.got.ContentType)
                   /\ s.got.StatusCode \in {StatusOK, StatusCreated}
                THEN indentJSON(read)
                ELSE [ok |-> TRUE, bytes |-> read]
    IN  IF ~ind.ok THEN Note(Fatal(s1, "indentJSON"), "dump", read)
        ELSE Note([s1 EXCEPT !.t.raw = [status |-> s.got.StatusCode,
                                         header |-> s.got.ContentType,
                                         body |-> ind.bytes],
                             !.pc = LoopPc(s, 0)],
                  "dump", read)

\* after filter s.fi + 1 returned
Filtered(s) == [s EXCEPT !.fi = @ + 1, !.pc = LoopPc(s, s.fi + 1)]

\* (mutant) the Content-Type is checked before the status
PrettyJSONTypeFirst(s) ==
    IF ~IsJSON(s.got.ContentType)
    THEN Note(Fatal(s, "Response is not JSON"), "PrettyJSON", NotRead)
    ELSE IF s.got.StatusCode = StatusNoContent
    THEN Note(Filtered(s), "PrettyJSON", NotRead)
    ELSE LET body == ReadAll(s.got.Body)
             ind  == indentJSON(body)
         IN  IF ~ind.ok
             THEN Note(Fatal([s EXCEPT !.got.Body = Drained(@)], "indentJSON"),
                       "PrettyJSON", body)
             ELSE Note(Filtered([s EXCEPT !.got.Body = NewReader(ind.bytes)]),
                       "PrettyJSON", body)

PrettyJSON(s) ==
    IF s.got.StatusCode = StatusNoContent
    THEN Note(Filtered(s), "PrettyJSON", NotRead)
    ELSE IF ~IsJSON(s.got.ContentType)
    THEN Note(Fatal(s, "Response is not JSON"), "PrettyJSON", NotRead)
    ELSE LET body == ReadAll(s.got.Body)
             ind  == indentJSON(body)
         IN  IF ~ind.ok
             THEN Note(Fatal([s EXCEPT !.got.Body = Drained(@)], "indentJSON"),
                       "PrettyJSON", body)
             ELSE Note(Filtered([s EXCEPT !.got.Body = NewReader(ind.bytes)]),
                       "PrettyJSON", body)

ModifyJSON(s, over, ord) ==
    LET body == ReadAll(s.got.Body)
        tmp  == Decode(body)
        rw   == rewriteMap(tmp.val, <<>>, over, ord)
        s1   == [s EXCEPT !.got.Body = Drained(@)]
    IN  IF ~tmp.ok THEN Note(Fatal(s1, "Decode"), "ModifyJSON", body)
        ELSE IF ~rw.ok THEN Note(Fatal(s1, rw.msg), "ModifyJSON", body)
        ELSE Note(Filtered([s EXCEPT !.got.Body = NewReader(Encode(rw.val))]),
                  "ModifyJSON", body)

\* (mutant) the body is left as io.ReadAll left it: read to its end
CaptureBodySpent(body) == [bytes |-> body, eof |-> TRUE]

\* r.Body = io.NopCloser(bytes.NewReader(body)) of CaptureResponse
CaptureBody(body) == NewReader(body)

CaptureResponse(s) ==
    LET body == ReadAll(s.got.Body)
        s1   == [s EXCEPT !.got.Body = CaptureBody(body)]
        dec  == UnmarshalPtr(body)
    IN  IF ~dec.ok THEN Note(Fatal(s1, "Unmarshal"), "CaptureResponse", body)
        ELSE Note(Filtered([s1 EXCEPT !.ptr = dec.val]), "CaptureResponse", body)

\* httputil.DumpResponse(got, true): status line, headers and body; the
\* body is read and put back
DumpResponse(resp) ==
    [status |-> resp.StatusCode, header |-> resp.ContentType, body |-> ReadAll(resp.Body)]

\* dump, err := httputil.DumpResponse(got, true)
Serialize(s) ==
    LET read == ReadAll(s.got.Body)
    IN  Note([s EXCEPT !.dump = DumpResponse(s.got), !.got.Body = NewReader(read)],
             "DumpResponse", read)

\* writeGolden(t, dump)
writeGolden(s) == [s EXCEPT !.golden[s.t.name] = s.dump, !.pc = "done"]

\* cmp.Diff(golden, dump) != ""
Differs(a, b) == a # b

\* (mutant) a missing golden file is created
compareGoldenCreate(s) ==
    LET file == s.golden[s.t.name]
    IN  IF file = NoFile THEN [s EXCEPT !.golden[s.t.name] = s.dump, !.pc = "done"]
        ELSE IF file # s.dump
        THEN [[s EXCEPT !.t.errors = @ \cup {"HTTP Response mismatch"}] EXCEPT !.pc = "done"]
        ELSE [s EXCEPT !.pc = "done"]

\* golden := readGolden(t); if diff := cmp.Diff(golden, dump); diff != "" {...}
compareGolden(s) ==
    LET file == s.golden[s.t.name]
    IN  IF file = NoFile THEN Fatal(s, "ReadFile")
        ELSE IF Differs(file, s.dump)
        THEN [Errorf(s, "HTTP Response mismatch") EXCEPT !.pc = "done"]
        ELSE [s EXCEPT !.pc = "done"]

(***************************************************************************)
(* Inputs of Spec.                                                         *)
(***************************************************************************)
Names == {"TestUserPostEndpoint"}

\* the longest filter chain
MaxChain == 2

\* the handler's clock: created_time is one of 1..MaxTime
MaxTime == 2

\* the literal of the example overwrite
Pinned == 1677136520

User(ts) == Obj([id |-> Num(1), created_time |-> Num(ts)])

\* a user whose "meta" is not the object the overwrite expects
OddUser == Obj([id |-> Num(1), created_time |-> Num(1), meta |-> Num(1)])

Bodies == {EmptyBytes, Garbage, Raw(Num(1)), Raw(OddUser)}
              \cup {Raw(User(ts)) : ts \in 1..MaxTime}

AppJSON == <<"application/json", "; charset=utf-8">>

TextPlain == <<"text/plain; charset=utf-8">>

Statuses == {StatusOK, StatusCreated, StatusNoContent, StatusInternalServerError}

Responses == [status : Statuses, ctype : {AppJSON, TextPlain}, body : Bodies]

Wants == {StatusOK, StatusNoContent}

\* the overwrite of the example, and a nested one for responses with "meta"
PinOverwrite == [created_time |-> Num(Pinned), meta |-> Obj([id |-> Num(Pinned)])]

RunOrders == Perms(Keys \cup {"meta"})

Filters == {[f |-> "PrettyJSON"], [f |-> "CaptureResponse"],
            [f |-> "ModifyJSON", overwrite |-> PinOverwrite]}

Chains == SeqsUpTo(Filters, MaxChain)

(***************************************************************************)
(* Spec: a test, that is a call RunTest(t, r, want, filters...) in a test   *)
(* function, run again and again: the handler's response is what varies.   *)
(* The flags are parsed when the test process starts; the golden files     *)
(* outlive it.                                                             *)
(***************************************************************************)
Idle(s) ==
    [s EXCEPT !.pc = "idle", !.t = NoRun, !.fi = 0,
              !.got = NoRun, !.dump = NoFile, !.ptr = NoRun, !.hist = <<>>]

Init ==
    /\ dumpRawResponse \in BOOLEAN
    /\ updateGolden \in BOOLEAN
    /\ golden = [n \in Names |-> NoFile]
    /\ want \in Wants
    /\ filters \in Chains
    /\ pc = "idle" /\ t = NoRun /\ fi = 0
    /\ got = NoRun /\ dump = NoFile /\ ptr = NoRun /\ hist = <<>>
    /\ base = Null /\ overwrite = EmptyMap /\ order = <<>> /\ rwpc = "off" /\ rwres = <<>>

\* go test is run again, with other flags
Launch ==
    /\ pc = "idle"
    /\ \E d, u \in BOOLEAN : Become([Cur EXCEPT !.dumpRaw = d, !.update = u])
    /\ UNCHANGED rwVars

\* RunTest is called: the request is served and the status asserted
RunTest ==
    /\ pc = "idle"
    /\ \E name \in Names, resp \in Responses :
         Become(AssertStatus(Dispatch(Cur, name, resp)))
    /\ UNCHANGED rwVars

StepDumpRaw ==
    /\ pc = "dump"
    /\ Become(DumpRaw(Cur))
    /\ UNCHANGED rwVars

StepPrettyJSON ==
    /\ pc = "filter"
    /\ filters[fi + 1].f = "PrettyJSON"
    /\ Become(PrettyJSON(Cur))
    /\ UNCHANGED rwVars

StepModifyJSON ==
    /\ pc = "filter"
    /\ filters[fi + 1].f = "ModifyJSON"
    /\ \E ord \in RunOrders : Become(ModifyJSON(Cur, filters[fi + 1].overwrite, ord))
    /\ UNCHANGED rwVars

StepCaptureResponse ==
    /\ pc = "filter"
    /\ filters[fi + 1].f = "CaptureResponse"
    /\ Become(CaptureResponse(Cur))
    /\ UNCHANGED rwVars

\* the response is serialized and, with -golden, written
StepUpdate ==
    /\ pc = "golden"
    /\ updateGolden
    /\ Become(writeGolden(Serialize(Cur)))
    /\ UNCHANGED rwVars

\* the response is serialized and, without -golden, compared
StepCompare ==
    /\ pc = "golden"
    /\ ~updateGolden
    /\ Become(compareGolden(Serialize(Cur)))
    /\ UNCHANGED rwVars

\* RunTest returned, or the test's goroutine exited in t.Fatal
Return ==
    /\ pc \in {"done", "fatal"}
    /\ Become(Idle(Cur))
    /\ UNCHANGED rwVars

Next ==
    \/ Launch
    \/ RunTest
    \/ StepDumpRaw
    \/ StepPrettyJSON
    \/ StepModifyJSON
    \/ StepCaptureResponse
    \/ StepUpdate
    \/ StepCompare
    \/ Return

Spec == Init /\ [][Next]_vars

(***************************************************************************)
(* A whole RunTest call as a function of its start, for the claims that    *)
(* compare two calls.  RunFrom follows the same steps as Next.             *)
(***************************************************************************)
OneFilter(s, ord) ==
    LET f == s.filters[s.fi + 1]
    IN  CASE f.f = "PrettyJSON" -> PrettyJSON(s)
          [] f.f = "CaptureResponse" -> CaptureResponse(s)
          [] f.f = "ModifyJSON" -> ModifyJSON(s, f.overwrite, ord)

RECURSIVE RunFrom(_, _)
RunFrom(s, ord) ==
    CASE s.pc = "assert" -> RunFrom(AssertStatus(s), ord)
      [] s.pc = "dump" -> RunFrom(DumpRaw(s), ord)
      [] s.pc = "filter" -> RunFrom(OneFilter(s, ord), ord)
      [] s.pc = "golden" -> IF s.update THEN writeGolden(Serialize(s))
                            ELSE compareGolden(Serialize(s))
      [] OTHER -> s

Running == pc \in {"dump", "filter", "golden", "done", "fatal"}

Ended == pc \in {"done", "fatal"}

\* the golden store when the running call began
Before == hist[1].golden

\* the response the handler gave to the running call
Served == [status |-> got.StatusCode, ctype |-> got.ContentType, body |-> hist[1].left.bytes]

\* the running call from its beginning, had the handler given resp
BeganWith(resp) == Dispatch([Idle(Cur) EXCEPT !.golden = Before], t.name, resp)

\* the running call from its beginning
Began == BeganWith(Served)

Outcome(s) ==
    IF s.t.fatal # "" THEN "aborted" ELSE IF s.t.errors # {} THEN "failed" ELSE "passed"

\* the steps a call took, in order
StepsOf(h) == [i \in DOMAIN h |-> h[i].step]

ReachedGolden == Ended /\ hist[Len(hist)].step = "DumpResponse"

(***************************************************************************)
(* C1.  Dump mode has no effect on pass/fail or on the golden file: every  *)
(* ended call has the outcome, and leaves the golden store, of the same    *)
(* call with -dump the other way.                                          *)
(***************************************************************************)
C1_DumpHasNoEffect ==
    Ended /\ dumpRawResponse =>
        \A ord \in RunOrders :
            LET other == RunFrom([Began EXCEPT !.dumpRaw = ~dumpRawResponse], ord)
            IN  /\ Outcome(other) = Outcome(Cur)
                /\ other.golden = golden

C3_ModeDecidesGolden ==
    /\ Running /\ ~updateGolden => golden = Before
    /\ ReachedGolden /\ updateGolden =>
          /\ pc = "done"
          /\ golden[t.name] = DumpResponse(got)
          /\ "HTTP Response mismatch" \notin t.errors
          /\ t.fatal = ""
    /\ ReachedGolden /\ ~updateGolden =>
          /\ pc = "fatal" <=> Before[t.name] = NoFile
          /\ t.fatal # "" <=> Before[t.name] = NoFile
          /\ "HTTP Response mismatch" \in t.errors
                <=> (Before[t.name] # NoFile /\ Before[t.name] # DumpResponse(got))

\* an update run overwrote a different record and recorded no failure
C3_Witness ==
    /\ pc = "done"
    /\ updateGolden
    /\ Before[t.name] \notin {NoFile, dump}
    /\ golden[t.name] = dump
    /\ t.errors = {}

(***************************************************************************)
(* C4.  A status code mismatch is a non-fatal assertion failure: a call    *)
(* whose response has another status than wanted is marked failed and      *)
(* takes the steps, and ends with the store, the bytes and the fatal       *)
(* error, of the same call with the status wanted; a call no step aborts   *)
(* runs every filter, serializes and compares or updates.                  *)
(***************************************************************************)
C4_StatusMismatchNonFatal ==
    Ended /\ got.StatusCode # want =>
        /\ "HTTP StatusCode" \in t.errors
        /\ \A ord \in RunOrders :
              LET same == RunFrom([Began EXCEPT !.want = got.StatusCode], ord)
              IN  /\ "HTTP StatusCode" \notin same.t.errors
                  /\ t.errors = same.t.errors \cup {"HTTP StatusCode"}
                  /\ t.fatal = same.t.fatal
                  /\ pc = same.pc
                  /\ StepsOf(hist) = StepsOf(same.hist)
                  /\ dump = same.dump
                  /\ golden = same.golden
        /\ t.fatal = "" =>
              /\ fi = Len(filters)
              /\ ReachedGolden
              /\ updateGolden => golden[t.name] = dump
              /\ ~updateGolden /\ Before[t.name] # dump
                    => "HTTP Response mismatch" \in t.errors

\* one call reported the status and the golden mismatch, after two filters
C4_Witness ==
    /\ pc = "done"
    /\ got.StatusCode # want
    /\ fi = 2
    /\ t.errors = {"HTTP StatusCode", "HTTP Response mismatch"}

(***************************************************************************)
(* C7.  PrettyJSON decides on status and Content-Type before touching the  *)
(* body: with status 204 it returns without reading the body and leaves    *)
(* it as it was, whatever the Content-Type; with another status and a      *)
(* Content-Type that is not JSON it aborts the test with "Response is not  *)
(* JSON", the body unread.                                                 *)
(***************************************************************************)
NotJSONType(header) == Len(header) = 0 \/ header[1] # "application/json"

C7_PrettyDecidesFirst ==
    Running =>
        \A i \in 2..Len(hist) :
            hist[i].step = "PrettyJSON" =>
                /\ got.StatusCode = StatusNoContent =>
                      /\ hist[i].read = NotRead
                      /\ hist[i].left = hist[i - 1].left
                      /\ i = Len(hist) => (t.fatal = "" /\ pc # "fatal")
                /\ got.StatusCode # StatusNoContent /\ NotJSONType(got.ContentType) =>
                      /\ i = Len(hist)
                      /\ pc = "fatal"
                      /\ t.fatal = "Response is not JSON"
                      /\ hist[i].read = NotRead
                      /\ hist[i].left = hist[i - 1].left

\* PrettyJSON was the last filter of a 204 text/plain response with a body,
\* and the test passed
C7_Witness ==
    /\ pc = "done"
    /\ got.StatusCode = StatusNoContent
    /\ got.ContentType = TextPlain
    /\ fi = 2
    /\ filters[2].f = "PrettyJSON"
    /\ dump.body = Garbage
    /\ t.errors = {}

(***************************************************************************)
(* C8.  Filters run strictly in the order supplied, each on the response   *)
(* the previous one left: the steps of a call are the filters in order,    *)
(* then the serializer; whatever reads the body reads, from its first      *)
(* byte, the complete body the step before left; CaptureResponse leaves    *)
(* the bytes it read, readable again.                                      *)
(***************************************************************************)
C8_FiltersInOrder ==
    Running =>
        LET pre == IF dumpRawResponse THEN 2 ELSE 1
        IN  /\ hist[1].step = "ServeHTTP"
            /\ Len(hist) <= pre + Len(filters) + 1
            /\ \A i \in 2..Len(hist) :
                  /\ hist[i].step =
                        IF i <= pre THEN "dump"
                        ELSE IF i - pre <= Len(filters) THEN filters[i - pre].f
                        ELSE "DumpResponse"
                  /\ hist[i].read # NotRead => hist[i].read = hist[i - 1].left.bytes
                  /\ hist[i].step = "CaptureResponse" =>
                        hist[i].left = [bytes |-> hist[i - 1].left.bytes, eof |-> FALSE]
            /\ pc # "dump" => (fi <= Len(hist) - pre /\ Len(hist) - pre <= fi + 1)
            /\ pc = "done" => Len(hist) = pre + Len(filters) + 1

\* CaptureResponse, then ModifyJSON, then the serializer each read a body
C8_Witness ==
    /\ pc = "done"
    /\ Len(filters) = 2
    /\ filters[1].f = "CaptureResponse"
    /\ filters[2].f = "ModifyJSON"
    /\ hist[Len(hist)].read = Encode(Obj([id |-> Num(1), created_time |-> Num(Pinned)]))
    /\ ptr = [ID |-> 1]

(***************************************************************************)
(* C9.  A field pinned by ModifyJSON cannot influence the compared bytes:  *)
(* a call with the chain ModifyJSON, PrettyJSON whose response is an       *)
(* object ends with the bytes, the store and the outcome of the same call  *)
(* on a response that differs only in the value of a top-level field the   *)
(* overwrite names with a literal; and a golden file an update run wrote   *)
(* for such a response compares equal.                                     *)
(***************************************************************************)
IsLiteral(v) == v.k \notin {"obj", "maps"}

\* what the handler may put in the pinned field
FieldValues == {Num(n) : n \in 1..MaxTime} \cup {Null, Str("now"), Obj(EmptyMap)}

\* the responses that differ from resp only in a field over pins
Variants(resp, over) ==
    IF resp.body.b # "json" \/ resp.body.v.k # "obj" THEN {}
    ELSE {[resp EXCEPT !.body.v.m[k] = x] :
            k \in {j \in DOMAIN over \cap DOMAIN resp.body.v.m : IsLiteral(over[j])},
            x \in FieldValues}

C9_PinnedFieldNoInfluence ==
    (/\ Ended
     /\ Len(filters) = 2
     /\ filters[1].f = "ModifyJSON"
     /\ filters[2].f = "PrettyJSON") =>
        \A resp \in Variants(Served, filters[1].overwrite), ord \in RunOrders :
            LET other == RunFrom(BeganWith(resp), ord)
                wrote == RunFrom([BeganWith(resp) EXCEPT !.update = TRUE], ord)
            IN  /\ other.dump = dump
                /\ other.golden = golden
                /\ Outcome(other) = Outcome(Cur)
                /\ (/\ ~updateGolden
                    /\ wrote.pc = "done"
                    /\ Before[t.name] = wrote.golden[t.name]) =>
                        /\ pc = "done"
                        /\ "HTTP Response mismatch" \notin t.errors

\* a response with created_time 2 compared equal to the golden file
C9_Witness ==
    /\ pc = "done"
    /\ ~updateGolden
    /\ Len(filters) = 2
    /\ filters[1].f = "ModifyJSON"
    /\ filters[2].f = "PrettyJSON"
    /\ Served.body = Raw(User(2))
    /\ dump.body = MarshalIndent(Obj([id |-> Num(1), created_time |-> Num(Pinned)]))
    /\ golden[t.name] = dump
    /\ t.errors = {}

(***************************************************************************)
(* SpecRewrite: rewriteMap(t, base, overwrite) called once, then again on  *)
(* the map the first call left.                                            *)
(***************************************************************************)
RwInit ==
    /\ base \in Targets
    /\ overwrite \in Overwrites
    /\ order \in Orders
    /\ rwpc = "init"
    /\ rwres = <<>>
    /\ dumpRawResponse = FALSE /\ updateGolden = FALSE
    /\ golden = [n \in Names |-> NoFile]
    /\ pc = "off" /\ t = NoRun /\ want = 0 /\ filters = <<>> /\ fi = 0
    /\ got = NoRun /\ dump = NoFile /\ ptr = NoRun /\ hist = <<>>

\* first call
RwApply ==
    /\ rwpc = "init"
    /\ LET r == rewriteMap(base, <<>>, overwrite, order)
       IN  /\ base' = r.val
           /\ rwres' = Append(rwres, [arg |-> base, ret |-> r])
    /\ rwpc' = "once"
    /\ UNCHANGED <<overwrite, order>>
    /\ UNCHANGED runVars

\* second call, on the map the first left, if the first returned; the
\* keys may be visited in another order
RwApplyAgain ==
    /\ rwpc = "once"
    /\ rwres[1].ret.ok
    /\ \E o \in Orders :
         LET r == rewriteMap(base, <<>>, overwrite, o)
         IN  /\ base' = r.val
             /\ rwres' = Append(rwres, [arg |-> base, ret |-> r])
    /\ rwpc' = "twice"
    /\ UNCHANGED <<overwrite, order>>
    /\ UNCHANGED runVars

RwNext == RwApply \/ RwApplyAgain

SpecRewrite == RwInit /\ [][RwNext]_vars

(***************************************************************************)
(* C5.  An array overwrite of length n on an array of another length is    *)
(* fatal, at any nesting depth: rewriteMap does not return, and the array  *)
(* is as it was (not rewritten in part, not grown).                        *)
(***************************************************************************)
\* the paths of the arrays of target tv that overwrite om matches with a
\* sequence of another length
RECURSIVE LenMismatches(_, _, _)
LenMismatches(tv, om, path) ==
    UNION {
        LET v == om[k]
            old == tv.m[k]
        IN  CASE v.k = "maps" /\ old.k = "arr" /\ Len(old.a) # Len(v.a) ->
                    {Append(path, k)}
              [] v.k = "maps" /\ old.k = "arr" /\ Len(old.a) = Len(v.a) ->
                    UNION {IF old.a[i].k = "obj"
                           THEN LenMismatches(old.a[i], v.a[i], path \o <<k, i>>)
                           ELSE {} : i \in 1..Len(v.a)}
              [] v.k = "obj" /\ old.k = "obj" ->
                    LenMismatches(old, v.m, Append(path, k))
              [] OTHER -> {}
        : k \in DOMAIN om \cap DOMAIN MapOf(tv)}

C5_LengthMismatchFatal ==
    rwpc = "once" =>
        \A p \in LenMismatches(rwres[1].arg, overwrite, <<>>) :
            /\ ~rwres[1].ret.ok
            /\ Get(base, p) = Get(rwres[1].arg, p)

\* a mismatch below the top level, hit after another key was rewritten
C5_Witness ==
    /\ rwpc = "once"
    /\ \E p \in LenMismatches(rwres[1].arg, overwrite, <<>>) :
          /\ Len(p) > 1
          /\ Len(Get(base, p).a) > Len(Get(Obj(overwrite), p).a)
    /\ base # rwres[1].arg

(***************************************************************************)
(* C6.  rewriteMap applies the overwrite only to keys the target has: a    *)
(* key of the overwrite the target lacks is ignored without error at       *)
(* every level (the call does what it does without those keys), no map of  *)
(* the target gains or loses a key, and when the target has no key of the  *)
(* overwrite the call returns with the target unchanged.                   *)
(***************************************************************************)
\* om without the keys tv lacks, at every level
RECURSIVE Prune(_, _)
Prune(tv, om) ==
    [k \in DOMAIN om \cap DOMAIN MapOf(tv) |->
        LET v == om[k]
            old == tv.m[k]
        IN  CASE v.k = "obj" /\ old.k = "obj" -> Obj(Prune(old, v.m))
              [] v.k = "maps" /\ old.k = "arr" /\ Len(old.a) = Len(v.a) ->
                    Maps([i \in 1..Len(v.a) |->
                            IF old.a[i].k = "obj" THEN Prune(old.a[i], v.a[i]) ELSE v.a[i]])
              [] OTHER -> v]

\* the maps of a and of b, where both have one, have the same keys
RECURSIVE SameKeys(_, _)
SameKeys(a, b) ==
    CASE a.k = "obj" /\ b.k = "obj" ->
            /\ DOMAIN a.m = DOMAIN b.m
            /\ \A k \in DOMAIN a.m : SameKeys(a.m[k], b.m[k])
      [] a.k = "arr" /\ b.k = "arr" ->
            /\ Len(a.a) = Len(b.a)
            /\ \A i \in 1..Len(a.a) : SameKeys(a.a[i], b.a[i])
      [] OTHER -> TRUE

C6_OnlyExistingKeys ==
    rwpc = "once" =>
        LET arg == rwres[1].arg
            ret == rwres[1].ret
        IN  /\ SameKeys(arg, base)
            /\ ret.ok => ret = rewriteMap(arg, <<>>, Prune(arg, overwrite), order)
            /\ ~ret.ok => ~rewriteMap(arg, <<>>, Prune(arg, overwrite), order).ok
            /\ DOMAIN overwrite \cap DOMAIN arg.m = {} => (ret.ok /\ base = arg)

\* the target lacks a key of the overwrite, and so does its nested map
C6_Witness ==
    /\ rwpc = "once"
    /\ rwres[1].ret.ok
    /\ base = rwres[1].arg
    /\ DOMAIN overwrite = Keys
    /\ DOMAIN rwres[1].arg.m = {"created_time"}
    /\ overwrite["id"].k = "num"
    /\ overwrite["created_time"] = Obj([id |-> Num(2)])
    /\ rwres[1].arg.m["created_time"] = Obj(EmptyMap)

(***************************************************************************)
(* C10.  rewriteMap is idempotent: called again on the map a first call    *)
(* returned with, with the same overwrite, it returns too and leaves the   *)
(* map as the first call left it.                                          *)
(***************************************************************************)
C10_RewriteIdempotent ==
    rwpc = "twice" =>
        /\ rwres[2].ret.ok
        /\ base = rwres[1].ret.val
        /\ rwres[2].arg = rwres[1].ret.val

\* both calls returned, the first having rewritten a literal, a nested map
\* and an element of an array
C10_Witness ==
    /\ rwpc = "twice"
    /\ rwres[1].arg = Obj([id |-> Obj([id |-> Num(1)]),
                           created_time |-> Arr(<<Obj([id |-> Num(1)])>>)])
    /\ base = Obj([id |-> Obj([id |-> Num(2)]),
                   created_time |-> Arr(<<Obj([id |-> Num(2)])>>)])


====
